---- MODULE Spec2Model ----
(***************************************************************************)
(* Model of the Postgres -> Elasticsearch ETL pipeline                     *)
(* (src/postgres_to_es/etl.py, src/postgres_to_es/load_data.py,            *)
(* src/etl_state.py).                                                      *)
(*                                                                         *)
(* One pipeline run is a single thread of control that is cut at its I/O   *)
(* points: the extraction queries, every cur.fetchmany / coro.send, and    *)
(* every requests.post.  The pipeline is re-invoked, any number of times,   *)
(* on the checkpoint the previous run left in the store.                   *)
(*                                                                         *)
(* Python values: a dict is a function over its keys, None is the absence  *)
(* of a key, a list is a sequence.  datetime.isoformat() wraps a time into *)
(* [iso |-> t] and datetime.fromisoformat() unwraps it; json.dumps wraps   *)
(* into [json |-> v] and json.loads unwraps.                               *)
(***************************************************************************)
EXTENDS Integers, Sequences, FiniteSets, TLC

\* ------------------------------------------------------------------ bounds
MaxTime == 2        \* modification times are 1..MaxTime
MaxRows == 2        \* rows of a batch given to the transformer on its own

\* ------------------------------------------------------- program constants
BATCH_LIMIT == 100
\* max_tries of the retry around load_movies (and a variant allowing one more call)
max_tries_four == 3 + 1
max_tries == 3
\* max_tries of the retry around load_to_es
load_to_es_max_tries == 3
DefaultIndexName == "movies"

Times == 1..MaxTime
Counts == {0, 1, BATCH_LIMIT, BATCH_LIMIT + 1}
PersonId == "person"

Min(a, b) == IF a < b THEN a ELSE b

\* ------------------------------------------------------- python dictionaries
EmptyDict == [k \in {} |-> 0]
Has(d, k) == k \in DOMAIN d
SetKey(d, k, v) == [x \in (DOMAIN d) \cup {k} |-> IF x = k THEN v ELSE d[x]]

isoformat(t) == [iso |-> t]
fromisoformat(s) == s.iso
json_dumps(v) == [json |-> v]
json_loads(s) == s.json

VARIABLES
    source,       \* the relational source: persons and film-work groups
    redis,        \* the key-value backend of RedisStorage
    state,        \* State.state, the in-memory copy of the checkpoint
    pc,           \* position of the run
    tries,        \* backoff's count of failed load_movies attempts
    failure,      \* exception that ended the run, or "none"
    cursor,       \* result set of the last query of load_movies
    pos,          \* number of rows already fetched from the cursor
    records,      \* the ESItem batch held by load_to_es
    str_query,    \* body of the last bulk request built by load_to_es
    attempts,     \* requests.post calls made for the current batch
    confirmed,    \* history: the persisted modified entry after the last response
    started,      \* history: the redis content when extraction started
    handed,       \* history: ids of the rows sent downstream, in order
    sent,         \* history: ids the sink received in this run
    error_log,    \* logging.error output of this run (one entry per item)
    sink_errors,  \* history: ids the sink marked with an error in this run
    owed,         \* history: ids reported by the source and not received since
    queried,      \* history: what the last load_movies call queried with
    client,       \* who drives the checkpoint store: the pipeline, or direct calls
    file_path,    \* JsonFileStorage.file_path: {} for None, else {path}
    files,        \* the file system: path -> file content
    file_state,   \* State.state of a State over the JsonFileStorage
    last          \* the last direct call and what it returned or raised

\* The variables only the pipeline touches, and those only direct calls touch.
run_vars == <<source, pc, tries, failure, cursor, pos, records, str_query,
              attempts, confirmed, started, handed, sent, error_log,
              sink_errors, owed, queried>>
store_vars == <<client, file_path, files, file_state, last>>

vars == <<run_vars, redis, state, store_vars>>

\* ------------------------------------------------------ the relational source
\* movies_person: person id -> modified.
movies_person == source.persons

\* movies_filmwork joined with movies_cast, in id order.  The table is given
\* by two groups of works, the first without cast and the second with the
\* person as cast; the works of a group share its modified time.
RECURSIVE FilmworkUpTo(_, _)
FilmworkUpTo(groups, g) ==
    IF g = 0 THEN << >>
    ELSE LET prev == FilmworkUpTo(groups, g - 1)
         IN  prev \o [i \in 1..groups[g].count |->
                        [id |-> Len(prev) + i,
                         modified |-> groups[g].modified,
                         cast |-> groups[g].cast]]

movies_filmwork == FilmworkUpTo(source.groups, Len(source.groups))

\* SELECT MIN(movies_person.modified): the empty set stands for SQL NULL.
min_modified ==
    IF DOMAIN movies_person = {} THEN {}
    ELSE {CHOOSE t \in Times :
            /\ \E p \in DOMAIN movies_person : movies_person[p] = t
            /\ \A p \in DOMAIN movies_person : movies_person[p] >= t}

\* the stored watermark ignored
query_modified_always_min(st) == min_modified

\* The watermark load_movies queries with: the stored one, else the minimum.
query_modified(st) ==
    IF ~Has(st, "modified") THEN min_modified
    ELSE {fromisoformat(st["modified"])}

\* SELECT uuid FROM movies_person WHERE modified >= %(modified)s
cast_ids(modified) ==
    {p \in DOMAIN movies_person : \E m \in modified : movies_person[p] >= m}

\* SELECT DISTINCT fw.id ... WHERE fw.modified >= %(modified)s
\*                              OR pfw.person_id = ANY(%(cast_ids)s)
film_work_ids(filmwork, modified, cast) ==
    {filmwork[i].id : i \in
        {j \in 1..Len(filmwork) :
            \/ \E m \in modified : filmwork[j].modified >= m
            \/ filmwork[j].cast \cap cast # {}}}

\* ORDER BY movies_filmwork.modified DESC (rows of equal time in id order)
RECURSIVE OrderByModifiedDesc(_, _)
OrderByModifiedDesc(rows, t) ==
    IF t = 0 THEN << >>
    ELSE SelectSeq(rows, LAMBDA r : r.modified = t)
            \o OrderByModifiedDesc(rows, t - 1)

\* The columns of one result row.  ARRAY_AGG ... FILTER is NULL, written {},
\* when no joined row passes the filter, and else the list, written {list}.
\* The person of the model is an actor and the works with cast have one genre.
film_work_row(fw) ==
    [id |-> fw.id,
     modified |-> fw.modified,
     genres |-> IF fw.cast = {} THEN {} ELSE {<<"genre">>},
     actors |-> IF fw.cast = {} THEN {} ELSE {<<PersonId>>},
     directors |-> {},
     writers |-> {}]

\* the last query without its ORDER BY
film_works_unordered(filmwork, ids) ==
    LET hit == SelectSeq(filmwork, LAMBDA fw : fw.id \in ids)
    IN  [i \in 1..Len(hit) |-> film_work_row(hit[i])]

\* SELECT ... FROM movies_filmwork ... WHERE id = ANY(%(film_work_ids)s)
film_works(filmwork, ids) ==
    LET hit == SelectSeq(filmwork, LAMBDA fw : fw.id \in ids)
        row == [i \in 1..Len(hit) |-> film_work_row(hit[i])]
    IN  OrderByModifiedDesc(row, MaxTime)

\* The queries of one load_movies call.
load_movies_rows(st) ==
    LET modified == query_modified(st)
        filmwork == movies_filmwork
    IN  film_works(filmwork, film_work_ids(filmwork, modified, cast_ids(modified)))

\* fetchmany with an off-by-one upper end
fetchmany_one_more(cur, n, size) == SubSeq(cur, n + 1, Min(n + size + 1, Len(cur)))

\* cur.fetchmany(size) on a cursor with n rows already consumed
fetchmany(cur, n, size) == SubSeq(cur, n + 1, Min(n + size, Len(cur)))

Ids(rows) == [i \in 1..Len(rows) |-> rows[i].id]
IdSet(rows) == {rows[i].id : i \in 1..Len(rows)}

\* ------------------------------------------------------------ checkpoint store
RedisStorage_save_state(db, st) == SetKey(db, "data", json_dumps(st))

RedisStorage_retrieve_state(db) ==
    IF ~Has(db, "data") THEN EmptyDict ELSE json_loads(db["data"])

\* flushdb
RedisStorage_clean_up(db) == EmptyDict

State_retrieve_state(db) ==
    LET data == RedisStorage_retrieve_state(db)
    IN  IF DOMAIN data = {} THEN EmptyDict ELSE data

\* The persisted checkpoint, as the next State construction would read it.
Checkpoint == State_retrieve_state(redis)

\* The modified entry of a checkpoint: {} when absent, {time} otherwise.
ModifiedOf(st) == IF Has(st, "modified") THEN {fromisoformat(st["modified"])} ELSE {}

\* ------------------------------------------------------------------ transformer
\* x or []: the list itself, the empty list for None
or_empty(x) == IF x = {} THEN << >> ELSE CHOOSE l \in x : TRUE

\* writers filled from the directors column
ESItem_writers_from_directors(film_work) ==
    [id |-> film_work.id,
     modified |-> isoformat(film_work.modified),
     actors |-> or_empty(film_work.actors),
     writers |-> or_empty(film_work.directors),
     directors |-> or_empty(film_work.directors),
     genres |-> or_empty(film_work.genres)]

ESItem(film_work) ==
    [id |-> film_work.id,
     modified |-> isoformat(film_work.modified),
     actors |-> or_empty(film_work.actors),
     writers |-> or_empty(film_work.writers),
     directors |-> or_empty(film_work.directors),
     genres |-> or_empty(film_work.genres)]

transform_data(raw_data) == [i \in 1..Len(raw_data) |-> ESItem(raw_data[i])]

\* ---------------------------------------------------------------------- indexer
_get_es_bulk_query(rows, index_name) ==
    [i \in 1..(2 * Len(rows)) |->
        IF i % 2 = 1
        THEN json_dumps([index |-> [_index |-> index_name, _id |-> rows[(i + 1) \div 2].id]])
        ELSE json_dumps(rows[i \div 2])]

\* "\n".join(prepared_query) + "\n": every line followed by its terminator
join_lines(prepared_query) ==
    [i \in 1..(2 * Len(prepared_query)) |->
        IF i % 2 = 1 THEN prepared_query[(i + 1) \div 2] ELSE "\n"]

\* The sink's per-item answer to a bulk request for recs, rejecting the ids in bad.
bulk_response(recs, bad) ==
    [items |-> [i \in 1..Len(recs) |->
        [index |-> IF recs[i].id \in bad
                   THEN [_id |-> recs[i].id, error |-> {recs[i].id}]
                   ELSE [_id |-> recs[i].id, error |-> {}]]]]

\* the loop without its `if error_message` test
logged_errors_every_item(json_response) ==
    [i \in 1..Len(json_response.items) |-> json_response.items[i].index.error]

\* for item in json_response["items"]: log item["index"].get("error") if set
logged_errors(json_response) ==
    LET bad == SelectSeq(json_response.items, LAMBDA item : item.index.error # {})
    IN  [i \in 1..Len(bad) |-> bad[i].index.error]

\* The answers the sink may give for a batch: no item marked with an error, or
\* the first item marked (every item of the batch, when it has a single row).
Rejections(recs) == {{}, {recs[1].id}}

\* ------------------------------------------------------------------------ state
Sources ==
    {[persons |-> ps, groups |-> gs] :
        ps \in {EmptyDict} \cup {[p \in {PersonId} |-> t] : t \in Times},
        gs \in [modified : Times, count : Counts, cast : {{}}]
                 \X [modified : Times, count : Counts, cast : {{PersonId}}]}

NotQueried == [min_modified |-> FALSE, modified |-> {}]
NoCall == [op |-> "none"]

Init ==
    /\ source \in Sources
    /\ redis = EmptyDict
    /\ state = EmptyDict
    /\ pc = "idle"
    /\ tries = 0
    /\ failure = "none"
    /\ cursor = << >>
    /\ pos = 0
    /\ records = << >>
    /\ str_query = << >>
    /\ attempts = 0
    /\ confirmed = {}
    /\ started = EmptyDict
    /\ handed = << >>
    /\ sent = {}
    /\ error_log = << >>
    /\ sink_errors = {}
    /\ owed = {}
    /\ queried = NotQueried
    /\ client = "pipeline"
    /\ file_path = {}
    /\ files = EmptyDict
    /\ file_state = EmptyDict
    /\ last = NoCall

\* set_state without the save to the storage
set_state_unsaved(key, value) ==
    /\ state' = SetKey(state, key, value)
    /\ redis' = redis

\* State.set_state: update the in-memory mapping, then save all of it.
set_state(key, value) ==
    /\ state' = SetKey(state, key, value)
    /\ redis' = RedisStorage_save_state(redis, state')

\* pipeline(): a State is constructed over the storage, the two coroutines are
\* created and primed (they stop at their first yield without any I/O, so the
\* retry wrapper around load_to_es has returned before any request is made),
\* and load_movies is entered.
pipeline ==
    /\ pc \in {"idle", "done", "aborted"}
    /\ state' = State_retrieve_state(redis)
    /\ pc' = "load_movies"
    /\ tries' = 0
    /\ failure' = "none"
    /\ cursor' = << >>
    /\ pos' = 0
    /\ records' = << >>
    /\ str_query' = << >>
    /\ attempts' = 0
    /\ confirmed' = ModifiedOf(Checkpoint)
    /\ started' = redis
    /\ handed' = << >>
    /\ sent' = {}
    /\ error_log' = << >>
    /\ sink_errors' = {}
    /\ owed' = IF pc = "done" THEN {} ELSE owed
    /\ UNCHANGED <<source, redis>>
    /\ queried' = NotQueried
    /\ UNCHANGED store_vars

\* load_movies up to its first fetchmany: the queries succeed.
load_movies_execute ==
    /\ pc = "load_movies"
    /\ cursor' = load_movies_rows(state)
    /\ pos' = 0
    /\ owed' = owed \cup IdSet(cursor')
    /\ pc' = "fetchmany"
    /\ UNCHANGED <<source, redis, state, tries, failure, records, str_query,
                   attempts, confirmed, started, handed, sent, error_log,
                   sink_errors>>
    /\ queried' = [min_modified |-> ~Has(state, "modified"),
                   modified |-> query_modified(state)]
    /\ UNCHANGED store_vars

\* load_movies raises OperationalError from the cursor or one of its queries;
\* backoff.on_exception calls it again until max_tries calls have failed.
load_movies_OperationalError ==
    /\ pc = "load_movies"
    /\ tries' = tries + 1
    /\ IF tries' = max_tries
       THEN pc' = "raised" /\ failure' = "OperationalError"
       ELSE pc' = "load_movies" /\ failure' = failure
    /\ UNCHANGED <<source, redis, state, cursor, pos, records, str_query,
                   attempts, confirmed, started, handed, sent, error_log,
                   sink_errors, owed>>
    /\ UNCHANGED <<queried, store_vars>>

\* One pass of the fetch loop with rows left: the batch goes through
\* transform_data into load_to_es, which builds and persists the bulk query
\* and stops at requests.post.
load_movies_send ==
    /\ pc = "fetchmany"
    /\ LET rows == fetchmany(cursor, pos, BATCH_LIMIT)
       IN  /\ rows # << >>
           /\ pos' = pos + Len(rows)
           /\ handed' = handed \o Ids(rows)
           /\ records' = transform_data(rows)
           /\ LET prepared_query == _get_es_bulk_query(records', DefaultIndexName)
              IN  /\ set_state("prepared_query", prepared_query)
                  /\ str_query' = join_lines(prepared_query)
    /\ attempts' = 0
    /\ pc' = "post"
    /\ UNCHANGED <<source, tries, failure, cursor, confirmed, started, sent,
                   error_log, sink_errors, owed>>
    /\ UNCHANGED <<queried, store_vars>>

\* requests.post returns: the watermark is stored and the item errors logged.
post_response ==
    /\ pc = "post"
    /\ \E bad \in Rejections(records) :
         LET json_response == bulk_response(records, bad)
         IN  /\ set_state("modified", records[1].modified)
             /\ error_log' = error_log \o logged_errors(json_response)
             /\ sink_errors' = sink_errors \cup bad
    /\ attempts' = attempts + 1
    /\ confirmed' = ModifiedOf(State_retrieve_state(redis'))
    /\ sent' = sent \cup IdSet(records)
    /\ owed' = owed \ IdSet(records)
    /\ pc' = "fetchmany"
    /\ UNCHANGED <<source, tries, failure, cursor, pos, records, str_query,
                   started, handed>>
    /\ UNCHANGED <<queried, store_vars>>

\* requests.post raises ConnectionError or Timeout: the exception leaves
\* load_to_es, transform_data and load_movies (whose retry only handles
\* OperationalError) and ends the run; both coroutines are finished.
post_ConnectionError ==
    /\ pc = "post"
    /\ attempts' = attempts + 1
    /\ failure' = "ConnectionError"
    /\ pc' = "raised"
    /\ UNCHANGED <<source, redis, state, tries, cursor, pos, records,
                   str_query, confirmed, started, handed, sent, error_log,
                   sink_errors, owed>>
    /\ UNCHANGED <<queried, store_vars>>

\* clean_up run on every exit of load_to_es, not only on GeneratorExit
close_coroutines_always(db, suspended) == RedisStorage_clean_up(db)

\* Closing the coroutine chain: transform_data's GeneratorExit handler closes
\* load_to_es, whose handler calls State.clean_up.  A coroutine that ended
\* with an exception is closed without running its handler.
close_coroutines(db, suspended) ==
    IF suspended THEN RedisStorage_clean_up(db) ELSE db

\* fetchmany returns no rows: load_movies and pipeline return, the coroutines
\* are released while suspended at their yield and are closed.
load_movies_return ==
    /\ pc = "fetchmany"
    /\ fetchmany(cursor, pos, BATCH_LIMIT) = << >>
    /\ redis' = close_coroutines(redis, TRUE)
    /\ pc' = "done"
    /\ UNCHANGED <<source, state, tries, failure, cursor, pos, records,
                   str_query, attempts, confirmed, started, handed, sent,
                   error_log, sink_errors, owed>>
    /\ UNCHANGED <<queried, store_vars>>

\* The exception has left pipeline: the frames it holds are released, and
\* with them the coroutines, which are closed if they are still suspended
\* (they are after a source failure, not after a failure inside load_to_es).
pipeline_raise ==
    /\ pc = "raised"
    /\ redis' = close_coroutines(redis, failure = "OperationalError")
    /\ pc' = "aborted"
    /\ UNCHANGED <<source, state, tries, failure, cursor, pos, records,
                   str_query, attempts, confirmed, started, handed, sent,
                   error_log, sink_errors, owed>>
    /\ UNCHANGED <<queried, store_vars>>

Next ==
    \/ pipeline
    \/ load_movies_execute
    \/ load_movies_OperationalError
    \/ load_movies_send
    \/ post_response
    \/ post_ConnectionError
    \/ load_movies_return
    \/ pipeline_raise

Spec == Init /\ [][Next]_vars

TypeOK ==
    /\ pc \in {"idle", "load_movies", "fetchmany", "post", "raised", "done", "aborted"}
    /\ failure \in {"none", "OperationalError", "ConnectionError"}
    /\ tries \in 0..max_tries
    /\ pos \in 0..Len(cursor)

\* ----------------------------------------------------------------- properties
Reported(log) == UNION {log[i] : i \in 1..Len(log)}

MaxOf(S) == CHOOSE m \in S : \A x \in S : x <= m

BatchModified(recs) == {fromisoformat(recs[i].modified) : i \in 1..Len(recs)}

\* C1: at-least-once delivery.  When a run terminates normally, every row the
\* source reported to this run, or to the aborted runs it recovers from, has
\* been received by the sink in a bulk request.
C1_AtLeastOnce == pc = "done" => owed = {}

\* C2: the persisted modified watermark is never later than the modification
\* time of an extracted row that the sink has not yet received.
C2_WatermarkBehindPending ==
    pc \in {"fetchmany", "post"} =>
        \A i \in 1..Len(cursor) :
            cursor[i].id \notin sent =>
                \A m \in ModifiedOf(Checkpoint) : m <= cursor[i].modified

\* C3: watermark monotonicity.  Every write of modified after a response
\* stores a value not below the stored one, and a run that terminates
\* normally leaves a watermark not below the one it started from.
C3_WatermarkMonotone ==
    [][/\ (pc = "post" /\ pc' = "fetchmany") =>
            \A m \in ModifiedOf(Checkpoint) :
                \E n \in ModifiedOf(Checkpoint') : n >= m
       /\ pc' = "done" =>
            \A m \in ModifiedOf(State_retrieve_state(started')) :
                \E n \in ModifiedOf(Checkpoint') : n >= m]_vars

\* C4: after normal termination the persisted checkpoint holds no
\* prepared_query but still holds the modified watermark the run wrote or
\* started from.
C4_NormalTermination ==
    pc = "done" =>
        /\ ~Has(Checkpoint, "prepared_query")
        /\ (sent # {} \/ Has(State_retrieve_state(started), "modified"))
              => Has(Checkpoint, "modified")

\* C5: idempotent resend.  When load_to_es receives a batch while the
\* checkpoint holds a prepared_query, the request body it builds is that
\* stored payload.
C5_IdempotentResend ==
    [][(pc = "fetchmany" /\ pc' = "post" /\ Has(Checkpoint, "prepared_query"))
          => str_query' = join_lines(Checkpoint["prepared_query"])]_vars

\* C6: a connection or timeout failure of the bulk send ends the run only
\* after the send was attempted load_to_es_max_tries times.
C6_SendRetried ==
    failure = "ConnectionError" => attempts = load_to_es_max_tries

\* C7: after a run was ended by a failed bulk send, the persisted checkpoint
\* holds the prepared_query of the failed request, and its modified entry is
\* the one left by the last response (or by the start of the run).
C7_SinkAbortKeepsPayload ==
    failure = "ConnectionError" =>
        /\ Has(Checkpoint, "prepared_query")
        /\ join_lines(Checkpoint["prepared_query"]) = str_query
        /\ Len(Checkpoint["prepared_query"]) = 2 * Len(records)
        /\ \A i \in 1..Len(records) :
              /\ json_loads(Checkpoint["prepared_query"][2 * i - 1]).index._id
                    = records[i].id
              /\ json_loads(Checkpoint["prepared_query"][2 * i]) = records[i]
        /\ ModifiedOf(Checkpoint) = confirmed

C7_Witness ==
    /\ pc = "aborted"
    /\ failure = "ConnectionError"
    /\ confirmed # {}
    /\ pos > BATCH_LIMIT
    /\ Has(Checkpoint, "prepared_query")

C9_PartialFailureIsolation ==
    [][/\ (/\ pc = "post"
           /\ sink_errors' # sink_errors
           /\ sink_errors' \ sink_errors # IdSet(records))
          => /\ pc' = "fetchmany"
             /\ failure' = "none"
             /\ pos' = pos
             /\ ModifiedOf(Checkpoint') = {MaxOf(BatchModified(records))}
             /\ Reported(error_log') \ Reported(error_log)
                    = sink_errors' \ sink_errors
             /\ Len(error_log') - Len(error_log)
                    = Cardinality(sink_errors' \ sink_errors)
       /\ (pc' = "done" /\ sink_errors' # {}) =>
             /\ sent' = IdSet(cursor')
             /\ Reported(error_log') = sink_errors']_vars

C9_Witness ==
    /\ pc = "done"
    /\ Len(cursor) > BATCH_LIMIT
    /\ sink_errors = {cursor[1].id}
    /\ sent = IdSet(cursor)

\* C10: batch bounding.  Every batch handed downstream is non-empty and has
\* at most BATCH_LIMIT rows, a shorter batch is the last one, and the batches
\* handed so far are, concatenated, the rows of the result in query order.
C10_BatchBounding ==
    /\ records # << >> =>
          /\ Len(records) <= BATCH_LIMIT
          /\ Len(records) < BATCH_LIMIT => pos = Len(cursor)
          /\ Ids(records) = SubSeq(handed, Len(handed) - Len(records) + 1, Len(handed))
    /\ pc = "post" => records # << >>
    /\ Len(handed) = pos
    /\ pc \in {"fetchmany", "post", "done"} => handed = Ids(SubSeq(cursor, 1, pos))
    /\ pc = "done" => handed = Ids(cursor)

C10_Witness ==
    /\ pc = "done"
    /\ Len(cursor) > 2 * BATCH_LIMIT
    /\ Len(records) < BATCH_LIMIT
    /\ handed = Ids(cursor)

\* C15: persist-before-send.  Whenever load_to_es is about to issue the bulk
\* request, the persisted prepared_query is the payload of that request: two
\* lines per document of the batch, the index action naming the index and the
\* document id, then the serialized document, each line with its terminator
\* in the request body.
C15_PersistBeforeSend ==
    pc = "post" =>
        /\ Has(Checkpoint, "prepared_query")
        /\ LET stored == Checkpoint["prepared_query"]
           IN  /\ Len(stored) = 2 * Len(records)
               /\ Len(str_query) = 2 * Len(stored)
               /\ \A i \in 1..Len(stored) :
                     /\ str_query[2 * i - 1] = stored[i]
                     /\ str_query[2 * i] = "\n"
               /\ \A i \in 1..Len(records) :
                     /\ json_loads(stored[2 * i - 1])
                           = [index |-> [_index |-> "movies", _id |-> records[i].id]]
                     /\ json_loads(stored[2 * i]) = records[i]

C15_Witness ==
    /\ pc = "post"
    /\ pos > BATCH_LIMIT
    /\ Len(records) > 1
    /\ sent # {}

\* C16: after a batch whose send succeeded, while load_to_es waits for the
\* next batch or the run has terminated, the persisted checkpoint holds no
\* prepared_query.
C16_PayloadCleared ==
    (pc \in {"fetchmany", "done"} /\ sent # {}) => ~Has(Checkpoint, "prepared_query")

\* C17: right after a response to a batch, the persisted modified watermark
\* is the latest modification time among the rows of that batch.
C17_WatermarkIsBatchMax ==
    [][(pc = "post" /\ pc' = "fetchmany") =>
          /\ Has(Checkpoint', "modified")
          /\ \E i \in 1..Len(records) :
                fromisoformat(Checkpoint'["modified"]) = cursor[pos - Len(records) + i].modified
          /\ \A i \in 1..Len(records) :
                fromisoformat(Checkpoint'["modified"]) >= cursor[pos - Len(records) + i].modified]_vars

C17_Witness ==
    /\ pc = "fetchmany"
    /\ pos = Len(cursor)
    /\ pos > BATCH_LIMIT
    /\ sent = IdSet(cursor)
    /\ cursor[1].modified # cursor[pos].modified
    /\ cursor[pos - 1].modified # cursor[pos].modified

C13_WitnessCold ==
    /\ pc = "fetchmany"
    /\ queried.min_modified
    /\ queried.modified # {}
    /\ cursor # << >>
    /\ \E i \in 1..Len(cursor) : cursor[i].modified > MaxOf(queried.modified)

Aggregates ==
    [genres : {{}, {<< >>}, {<<"a", "b">>}},
     actors : {{}, {<<"a", "b">>}},
     directors : {{}, {<<"b", "a">>}},
     writers : {{}, {<<"a">>}}]

RawBatches ==
    UNION {{[i \in 1..n |->
               [id |-> i, modified |-> 1,
                genres |-> agg[i].genres, actors |-> agg[i].actors,
                directors |-> agg[i].directors, writers |-> agg[i].writers]] :
            agg \in [1..n -> Aggregates]} : n \in 0..MaxRows}

InitTransform ==
    /\ source = [persons |-> EmptyDict,
                 groups |-> <<[modified |-> 1, count |-> 0, cast |-> {}],
                              [modified |-> 1, count |-> 0, cast |-> {PersonId}]>>]
    /\ redis = EmptyDict
    /\ state = EmptyDict
    /\ pc = "transform"
    /\ tries = 0
    /\ failure = "none"
    /\ cursor \in RawBatches
    /\ pos = 0
    /\ records = << >>
    /\ str_query = << >>
    /\ attempts = 0
    /\ confirmed = {}
    /\ started = EmptyDict
    /\ handed = << >>
    /\ sent = {}
    /\ error_log = << >>
    /\ sink_errors = {}
    /\ owed = {}
    /\ queried = NotQueried
    /\ client = "transform_data"
    /\ file_path = {}
    /\ files = EmptyDict
    /\ file_state = EmptyDict
    /\ last = NoCall

\* transform_data receives the batch and sends on the records it built.
transform_batch ==
    /\ pc = "transform"
    /\ cursor # << >>
    /\ records' = transform_data(cursor)
    /\ pc' = "transformed"
    /\ UNCHANGED <<source, redis, state, tries, failure, cursor, pos, str_query,
                   attempts, confirmed, started, handed, sent, error_log,
                   sink_errors, owed, queried, store_vars>>

NextTransform == transform_batch

SpecTransform == InitTransform /\ [][NextTransform]_vars

\* C14: null-safety.  The transformer yields one document per row, in the
\* order of the batch, and each of genres, actors, directors and writers of a
\* document is the empty list when the row's aggregate is null and the row's
\* list otherwise.
C14_NullSafety ==
    pc = "transformed" =>
        /\ Len(records) = Len(cursor)
        /\ \A i \in 1..Len(cursor) :
              /\ records[i].id = cursor[i].id
              /\ IF cursor[i].genres = {} THEN records[i].genres = << >>
                 ELSE cursor[i].genres = {records[i].genres}
              /\ IF cursor[i].actors = {} THEN records[i].actors = << >>
                 ELSE cursor[i].actors = {records[i].actors}
              /\ IF cursor[i].directors = {} THEN records[i].directors = << >>
                 ELSE cursor[i].directors = {records[i].directors}
              /\ IF cursor[i].writers = {} THEN records[i].writers = << >>
                 ELSE cursor[i].writers = {records[i].writers}

C14_Witness ==
    /\ pc = "transformed"
    /\ Len(records) = 2
    /\ cursor[1].genres = {}
    /\ cursor[1].writers = {}
    /\ cursor[1].directors # {}
    /\ cursor[2].actors # {}
    /\ cursor[2].genres = {<< >>}
    /\ records[1].genres = << >>

\* ------------------------------------------------ the checkpoint stores alone
PathName == "state.json"
PathOf(path) == CHOOSE f \in path : TRUE

\* the file updated with the new keys instead of rewritten
JsonFileStorage_save_state_merging(path, fs, st) ==
    IF path = {} THEN fs
    ELSE LET old == IF Has(fs, PathOf(path)) THEN json_loads(fs[PathOf(path)])
                    ELSE EmptyDict
         IN  SetKey(fs, PathOf(path),
                    json_dumps([k \in DOMAIN old \cup DOMAIN st |->
                                  IF k \in DOMAIN st THEN st[k] ELSE old[k]]))

\* JsonFileStorage.save_state: nothing without a path, else open(path, "w")
\* and json.dump.  The result is the file system afterwards.
JsonFileStorage_save_state(path, fs, st) ==
    IF path = {} THEN fs ELSE SetKey(fs, PathOf(path), json_dumps(st))

\* FileNotFoundError not handled
JsonFileStorage_retrieve_state_no_handler(path, fs) ==
    IF path = {} THEN [raised |-> "none", value |-> EmptyDict, files |-> fs]
    ELSE IF Has(fs, PathOf(path))
    THEN [raised |-> "none", value |-> json_loads(fs[PathOf(path)]), files |-> fs]
    ELSE [raised |-> "FileNotFoundError", value |-> EmptyDict, files |-> fs]

\* JsonFileStorage.retrieve_state: {} without a path; the loaded file; and on
\* FileNotFoundError an empty state is saved and {} returned.
JsonFileStorage_retrieve_state(path, fs) ==
    IF path = {} THEN [raised |-> "none", value |-> EmptyDict, files |-> fs]
    ELSE IF Has(fs, PathOf(path))
    THEN [raised |-> "none", value |-> json_loads(fs[PathOf(path)]), files |-> fs]
    ELSE [raised |-> "none", value |-> EmptyDict,
          files |-> JsonFileStorage_save_state(path, fs, EmptyDict)]

\* JsonFileStorage.clean_up: os.path.exists(self.file_path) raises TypeError
\* for None; an existing file is removed.
JsonFileStorage_clean_up(path, fs) ==
    IF path = {} THEN [raised |-> "TypeError", files |-> fs]
    ELSE [raised |-> "none",
          files |-> [f \in DOMAIN fs \ path |-> fs[f]]]

\* The mappings given to save_state and the values given to set_state.
StoredValues ==
    [k \in {"modified", "prepared_query"} |->
        IF k = "modified" THEN {isoformat(t) : t \in Times}
        ELSE {<<"action", "source">>}]

Mappings ==
    UNION {{[k \in ks |-> IF k = "modified" THEN m ELSE q] :
                m \in StoredValues["modified"], q \in StoredValues["prepared_query"]} :
           ks \in SUBSET {"modified", "prepared_query"}}

Call(op, arg, redis_value, file_raised, file_value) ==
    [op |-> op, arg |-> arg, redis_raised |-> "none", redis_value |-> redis_value,
     file_raised |-> file_raised, file_value |-> file_value]

InitStore ==
    /\ source = [persons |-> EmptyDict,
                 groups |-> <<[modified |-> 1, count |-> 0, cast |-> {}],
                              [modified |-> 1, count |-> 0, cast |-> {PersonId}]>>]
    /\ redis \in {EmptyDict, [k \in {"session"} |-> "token"]}
    /\ state = EmptyDict
    /\ pc = "idle"
    /\ tries = 0
    /\ failure = "none"
    /\ cursor = << >>
    /\ pos = 0
    /\ records = << >>
    /\ str_query = << >>
    /\ attempts = 0
    /\ confirmed = {}
    /\ started = EmptyDict
    /\ handed = << >>
    /\ sent = {}
    /\ error_log = << >>
    /\ sink_errors = {}
    /\ owed = {}
    /\ queried = NotQueried
    /\ client \in {"storage", "State"}
    /\ file_path \in {{}, {PathName}}
    /\ files = EmptyDict
    /\ file_state = EmptyDict
    /\ last = NoCall

\* save_state(s) on the RedisStorage and on the JsonFileStorage
storage_save_state ==
    /\ client = "storage"
    /\ \E s \in Mappings :
         /\ redis' = RedisStorage_save_state(redis, s)
         /\ files' = JsonFileStorage_save_state(file_path, files, s)
         /\ last' = Call("save_state", s, EmptyDict, "none", EmptyDict)
    /\ UNCHANGED <<run_vars, state, client, file_path, file_state>>

\* retrieve_state() on both storages
storage_retrieve_state ==
    /\ client = "storage"
    /\ LET got == JsonFileStorage_retrieve_state(file_path, files)
       IN  /\ files' = got.files
           /\ last' = Call("retrieve_state", EmptyDict,
                           RedisStorage_retrieve_state(redis), got.raised, got.value)
    /\ UNCHANGED <<run_vars, redis, state, client, file_path, file_state>>

\* clean_up() on both storages
storage_clean_up ==
    /\ client = "storage"
    /\ LET done == JsonFileStorage_clean_up(file_path, files)
       IN  /\ files' = done.files
           /\ last' = Call("clean_up", EmptyDict, EmptyDict, done.raised, EmptyDict)
    /\ redis' = RedisStorage_clean_up(redis)
    /\ UNCHANGED <<run_vars, state, client, file_path, file_state>>

\* State(storage) constructed anew over each storage
State_init ==
    /\ client = "State"
    /\ state' = State_retrieve_state(redis)
    /\ LET got == JsonFileStorage_retrieve_state(file_path, files)
       IN  /\ files' = got.files
           /\ file_state' = IF DOMAIN got.value = {} THEN EmptyDict ELSE got.value
           /\ last' = Call("State", EmptyDict, state', got.raised, file_state')
    /\ UNCHANGED <<run_vars, redis, client, file_path>>

\* State.set_state(key, value) on both
State_set_state ==
    /\ client = "State"
    /\ \E key \in DOMAIN StoredValues : \E value \in StoredValues[key] :
         /\ set_state(key, value)
         /\ file_state' = SetKey(file_state, key, value)
         /\ files' = JsonFileStorage_save_state(file_path, files, file_state')
         /\ last' = Call("set_state", [k \in {key} |-> value], EmptyDict, "none", EmptyDict)
    /\ UNCHANGED <<run_vars, client, file_path>>

\* State.get_state: self.state.get(key); {} stands for None
State_get_state(st, key) == IF Has(st, key) THEN {st[key]} ELSE {}

\* State.get_state(key) on both
get_state ==
    /\ client = "State"
    /\ \E key \in DOMAIN StoredValues :
         last' = Call("get_state", key, State_get_state(state, key),
                      "none", State_get_state(file_state, key))
    /\ UNCHANGED <<run_vars, redis, state, client, file_path, files, file_state>>

\* State.clean_up() on both: only the storage is cleaned
State_clean_up ==
    /\ client = "State"
    /\ LET done == JsonFileStorage_clean_up(file_path, files)
       IN  /\ files' = done.files
           /\ last' = Call("State.clean_up", EmptyDict, EmptyDict, done.raised, EmptyDict)
    /\ redis' = RedisStorage_clean_up(redis)
    /\ UNCHANGED <<run_vars, state, client, file_path, file_state>>

NextStore ==
    \/ storage_save_state
    \/ storage_retrieve_state
    \/ storage_clean_up
    \/ State_init
    \/ State_set_state
    \/ get_state
    \/ State_clean_up

SpecStore == InitStore /\ [][NextStore]_vars

\* The two stores answered the last call alike and neither raised.
StoresAgree ==
    /\ last.redis_raised = "none"
    /\ last.file_raised = "none"
    /\ last.redis_value = last.file_value

\* What retrieve_state returns directly after save_state(s) and after clean_up.
RetrieveAfter ==
    last'.op = "retrieve_state" =>
        /\ last.op = "save_state" =>
               last'.redis_value = last.arg /\ last'.file_value = last.arg
        /\ last.op = "clean_up" =>
               last'.redis_value = EmptyDict /\ last'.file_value = EmptyDict

\* C11 as stated: over every file-backed store, with or without a path, each
\* save_state, retrieve_state and clean_up succeeds on both stores, every
\* retrieve_state returns the same mapping from both, retrieve_state after
\* save_state(s) returns exactly s and after clean_up the empty mapping.
C11_Interchangeable ==
    [][client = "storage" => StoresAgree' /\ RetrieveAfter]_vars

\* C11 amended: the same for a file-backed store constructed with a path.
C11_InterchangeableWithPath ==
    [][client = "storage" /\ file_path # {} => StoresAgree' /\ RetrieveAfter]_vars

\* Both stores returned the same two-key mapping from a retrieve_state while
\* the file holds it.
C11_Witness ==
    /\ client = "storage"
    /\ file_path # {}
    /\ last.op = "retrieve_state"
    /\ DOMAIN last.file_value = {"modified", "prepared_query"}
    /\ last.redis_value = last.file_value
    /\ Has(files, PathName)
    /\ json_loads(files[PathName]) = last.file_value

\* The remote key holds no value; the file store has no path or no file.
RedisMissing == ~Has(redis, "data")
FileMissing == file_path = {} \/ ~Has(files, PathName)

\* C12: retrieve_state on a backend that holds nothing (no value under the
\* remote key, no path, no file at the path) returns the empty mapping and
\* does not raise, in every state; a State constructed over such a backend
\* has no value for any key.
C12_RetrieveOnMissing ==
    [][/\ last'.op = "retrieve_state" /\ RedisMissing =>
              last'.redis_raised = "none" /\ last'.redis_value = EmptyDict
       /\ last'.op = "retrieve_state" /\ FileMissing =>
              last'.file_raised = "none" /\ last'.file_value = EmptyDict
       /\ last'.op = "State" /\ RedisMissing =>
              /\ last'.redis_raised = "none"
              /\ \A key \in DOMAIN StoredValues : State_get_state(state', key) = {}
       /\ last'.op = "State" /\ FileMissing =>
              /\ last'.file_raised = "none"
              /\ \A key \in DOMAIN StoredValues : State_get_state(file_state', key) = {}
      ]_vars

\* retrieve_state found no file at the path and no value under the remote
\* key that holds another key: both returned {} and the file now holds {}.
C12_Witness ==
    /\ client = "storage"
    /\ last.op = "retrieve_state"
    /\ file_path # {}
    /\ Has(redis, "session")
    /\ RedisMissing
    /\ last.redis_value = EmptyDict
    /\ last.file_value = EmptyDict
    /\ last.file_raised = "none"
    /\ Has(files, PathName)
    /\ files[PathName] = json_dumps(EmptyDict)

\* C18: the mapping a State holds in memory equals the mapping persisted in
\* its storage, that is what a State constructed now over the same storage
\* would hold, after every sequence of set_state and clean_up calls on the
\* remote store and on the file store with a path.
C18_StateEqualsStorage ==
    client = "State" =>
        /\ state = State_retrieve_state(redis)
        /\ file_path # {} =>
               file_state = JsonFileStorage_retrieve_state(file_path, files).value

\* C19: on a file store constructed without a path no call raises and
\* nothing is written.
C19_NoPathNeverRaises ==
    file_path = {} /\ last.op # "none" =>
        last.file_raised = "none" /\ files = EmptyDict

\* C20: every key of the remote backend other than `data` keeps its value
\* across each call on the remote store.
C20_RedisFrame ==
    [][\A k \in DOMAIN redis \ {"data"} : Has(redis', k) /\ redis'[k] = redis[k]]_vars

====
